---------------------------- MODULE Spec2Model ----------------------------
(***************************************************************************)
(* Model of src/python/huffman.py: frequency counting, Huffman tree        *)
(* construction on a heapq binary heap, code generation, encoding, the     *)
(* greedy decoder of the decode branch, and the bitwise CRC.               *)
(*                                                                         *)
(* Python values are represented as follows.                               *)
(*   str            a sequence of one-character strings                    *)
(*   dict           a sequence of [key, val] records in insertion order    *)
(*   Node object    an index into the arena `nodes`                        *)
(*   int (CRC)      the set of positions of its 1 bits (unbounded width)   *)
(***************************************************************************)
EXTENDS Integers, Sequences, FiniteSets

VARIABLES
    action,        \* sys.argv[1], or the function called directly
    data,          \* sys.argv[2]
    pc,            \* position in the program
    freq,          \* FrequencyTable (dict char -> count)
    probs,         \* ProbabilityTable (dict char -> count/total)
    nodes,         \* arena of the Node objects created so far
    heap,          \* the heapq list of build_huffman_tree
    steps,         \* raw snapshots of build_huffman_tree
    n1,            \* local n1 of the merge loop
    n2,            \* local n2 of the merge loop
    merged,        \* local merged of the merge loop
    root,          \* returned root
    build_steps,   \* returned formatted_steps
    codes,         \* CodeTable (dict char -> bit string)
    encoded_data,  \* EncodedStream
    crc,           \* checksum, and the register of calculate_crc
    bytes,         \* data.encode() in calculate_crc
    nbytes,        \* number of bytes calculate_crc has consumed
    reverse_codes, \* inverse mapping of the decode branch
    buffer,        \* bit buffer of the decode loop
    decoded,       \* output of the decode loop
    pos,           \* number of bits of encoded_data consumed
    error,         \* exception that ended the run, or None
    original       \* the text whose encoding is being decoded, or None

vars == << action, data, pc, freq, probs, nodes, heap, steps, n1, n2, merged,
           root, build_steps, codes, encoded_data, crc, bytes, nbytes,
           reverse_codes, buffer, decoded, pos, error, original >>

-----------------------------------------------------------------------------
(* Bounds of the model *)

MaxLen == 4        \* longest text given to the encode action
MaxSyms == 4       \* largest frequency table given to build_huffman_tree
MaxFreq == 3       \* largest count in such a table
MaxTable == 2      \* largest code table given to the decode action
MaxCodeLen == 2    \* longest code in such a table
MaxStream == 3     \* longest bit string given to the decode action
MaxCrcLen == 2     \* longest text given to calculate_crc directly

None == "None"
Alphabet == <<"a", "b", "c", "d", "e">>
TextAlphabet == {"a", "b", "c"}
CrcAlphabet == {"NUL", "a", "DEL", "e_acute", "euro"}
Bit == {"0", "1"}

SeqsUpTo(S, n) == UNION {[1..m -> S] : m \in 0..n}

-----------------------------------------------------------------------------
(* dict helpers *)

HasKey(d, k) == \E i \in DOMAIN d : d[i].key = k

Get(d, k) == d[CHOOSE i \in DOMAIN d : d[i].key = k].val

\* d[k] = v : overwrite in place, or append a new key at the end
DictSet(d, k, v) ==
    IF HasKey(d, k)
    THEN [i \in DOMAIN d |-> IF d[i].key = k THEN [key |-> k, val |-> v] ELSE d[i]]
    ELSE Append(d, [key |-> k, val |-> v])

RECURSIVE SumVals(_)
SumVals(d) == IF d = <<>> THEN 0 ELSE d[1].val + SumVals(Tail(d))

-----------------------------------------------------------------------------
(* calculate_frequency *)

RECURSIVE calculate_frequency(_)
calculate_frequency(text) ==
    IF text = <<>> THEN <<>>
    ELSE LET front == SubSeq(text, 1, Len(text) - 1)
             char == text[Len(text)]
             f == calculate_frequency(front)
         IN  DictSet(f, char, (IF HasKey(f, char) THEN Get(f, char) ELSE 0) + 1)

(* calculate_probabilities: total is computed first, the division happens  *)
(* once per item of the table.  A quotient is kept as numerator and        *)
(* denominator; dividing by zero raises.                                   *)

Divide(n, d) == [raised |-> d = 0, num |-> n, den |-> d]

\* variant: the reciprocal of total is taken before the loop
calculate_probabilities_reciprocal(freq_dict) ==
    LET total == SumVals(freq_dict)
    IN  IF Divide(1, total).raised
        THEN [raised |-> TRUE, value |-> <<>>]
        ELSE [raised |-> FALSE,
              value |-> [i \in DOMAIN freq_dict |->
                          [key |-> freq_dict[i].key,
                           val |-> <<freq_dict[i].val, total>>]]]

calculate_probabilities(freq_dict) ==
    LET total == SumVals(freq_dict)
        quot == [i \in DOMAIN freq_dict |->
                    [key |-> freq_dict[i].key, val |-> Divide(freq_dict[i].val, total)]]
    IN  IF \E i \in DOMAIN quot : quot[i].val.raised
        THEN [raised |-> TRUE, value |-> <<>>]
        ELSE [raised |-> FALSE,
              value |-> [i \in DOMAIN quot |->
                          [key |-> quot[i].key,
                           val |-> <<quot[i].val.num, quot[i].val.den>>]]]

-----------------------------------------------------------------------------
(* class Node *)

NoNode == 0

Node(char, f) == [char |-> char, freq |-> f, left |-> NoNode, right |-> NoNode]

\* variant: the comparison reversed
Lt_reversed(ns, a, b) == ns[a].freq > ns[b].freq

\* Node.__lt__
Lt(ns, a, b) == ns[a].freq < ns[b].freq

-----------------------------------------------------------------------------
(* heapq, on a list of Node references.  Positions are 0-based as in       *)
(* Python; At and Put translate to the 1-based sequence.                   *)

At(h, p) == h[p + 1]
Put(h, p, x) == [h EXCEPT ![p + 1] = x]

RECURSIVE SiftDownLoop(_, _, _, _, _)
SiftDownLoop(ns, h, startpos, p, newitem) ==
    IF p > startpos
    THEN LET parentpos == (p - 1) \div 2
             parent == At(h, parentpos)
         IN  IF Lt(ns, newitem, parent)
             THEN SiftDownLoop(ns, Put(h, p, parent), startpos, parentpos, newitem)
             ELSE Put(h, p, newitem)
    ELSE Put(h, p, newitem)

\* heapq._siftdown
SiftDown(ns, h, startpos, p) == SiftDownLoop(ns, h, startpos, p, At(h, p))

RECURSIVE SiftUpLoop(_, _, _, _, _)
SiftUpLoop(ns, h, startpos, p, newitem) ==
    LET endpos == Len(h)
        childpos == 2 * p + 1
        rightpos == childpos + 1
        pick == IF rightpos < endpos /\ ~Lt(ns, At(h, childpos), At(h, rightpos))
                THEN rightpos ELSE childpos
    IN  IF childpos < endpos
        THEN SiftUpLoop(ns, Put(h, p, At(h, pick)), startpos, pick, newitem)
        ELSE SiftDown(ns, Put(h, p, newitem), startpos, p)

\* heapq._siftup
SiftUp(ns, h, p) == SiftUpLoop(ns, h, p, p, At(h, p))

RECURSIVE HeapifyFrom(_, _, _)
HeapifyFrom(ns, h, i) ==
    IF i < 0 THEN h ELSE HeapifyFrom(ns, SiftUp(ns, h, i), i - 1)

\* heapq.heapify
heapify(ns, h) == HeapifyFrom(ns, h, (Len(h) \div 2) - 1)

\* heapq.heappop: the item returned and the list left behind
heappop(ns, h) ==
    LET lastelt == h[Len(h)]
        rest == SubSeq(h, 1, Len(h) - 1)
    IN  IF rest # <<>>
        THEN [item |-> rest[1], heap |-> SiftUp(ns, Put(rest, 0, lastelt), 0)]
        ELSE [item |-> lastelt, heap |-> rest]

\* heapq.heappush
heappush(ns, h, item) == SiftDown(ns, Append(h, item), 0, Len(h))

-----------------------------------------------------------------------------
(* build_huffman_tree *)

\* sorted(..., key=...) is stable: insert after the last entry whose key
\* is not greater
RECURSIVE SortedByFreq(_)
SortedByFreq(s) ==
    IF s = <<>> THEN <<>>
    ELSE LET front == SortedByFreq(SubSeq(s, 1, Len(s) - 1))
             x == s[Len(s)]
             k == Cardinality({i \in DOMAIN front : front[i][2] <= x[2]})
         IN  SubSeq(front, 1, k) \o <<x>> \o SubSeq(front, k + 1, Len(front))

\* truth value of n.char
Truthy(char) == char # None /\ char # ""

\* variant: the pool listed in heap order
snapshot_unsorted(ns, h) ==
    [i \in DOMAIN h |->
        << IF Truthy(ns[h[i]].char) THEN ns[h[i]].char ELSE "*", ns[h[i]].freq >>]

snapshot(ns, h) ==
    SortedByFreq([i \in DOMAIN h |->
        << IF Truthy(ns[h[i]].char) THEN ns[h[i]].char ELSE "*", ns[h[i]].freq >>])

\* float(f)
ToFloat(f) == [float |-> f]

formatted_steps(st) ==
    [i \in DOMAIN st |->
        [step |-> i - 1,
         heap |-> [j \in DOMAIN st[i] |-> << st[i][j][1], ToFloat(st[i][j][2]) >>]]]

\* variant: merged.right is never assigned
MergedNode_noright(ns, a, b) ==
    [char |-> None, freq |-> ns[a].freq + ns[b].freq, left |-> a, right |-> NoNode]

\* merged = Node(freq=n1.freq + n2.freq); merged.left = n1; merged.right = n2
MergedNode(ns, a, b) ==
    [char |-> None, freq |-> ns[a].freq + ns[b].freq, left |-> a, right |-> b]

-----------------------------------------------------------------------------
(* generate_codes *)

\* lines 71-72 at one node
Visit(ns, cs, node, code) ==
    IF ns[node].char # None THEN DictSet(cs, ns[node].char, code) ELSE cs

\* variant: both branches append '0'
RECURSIVE dfs_samebit(_, _, _, _)
dfs_samebit(ns, cs, node, code) ==
    IF node # NoNode
    THEN dfs_samebit(ns,
             dfs_samebit(ns, Visit(ns, cs, node, code), ns[node].left, Append(code, "0")),
             ns[node].right, Append(code, "0"))
    ELSE cs

RECURSIVE dfs(_, _, _, _)
dfs(ns, cs, node, code) ==
    IF node # NoNode
    THEN dfs(ns,
             dfs(ns, Visit(ns, cs, node, code), ns[node].left, Append(code, "0")),
             ns[node].right, Append(code, "1"))
    ELSE cs

generate_codes(ns, r) == dfs(ns, <<>>, r, <<>>)

(* encode_text: a symbol without a code raises KeyError *)

RECURSIVE Join(_)
Join(ss) == IF ss = <<>> THEN <<>> ELSE ss[1] \o Join(Tail(ss))

encode_text(text, cs) ==
    IF \E i \in DOMAIN text : ~HasKey(cs, text[i])
    THEN [raised |-> TRUE, value |-> <<>>]
    ELSE [raised |-> FALSE, value |-> Join([i \in DOMAIN text |-> Get(cs, text[i])])]

-----------------------------------------------------------------------------
(* calculate_crc.  A Python int is the set of the positions of its 1 bits, *)
(* so no width is imposed on intermediate values.                          *)

Xor(a, b) == {i \in a \cup b : ~(i \in a /\ i \in b)}
And(a, b) == {i \in a : i \in b}
Shl(a, k) == {i + k : i \in a}

RECURSIVE Pow2(_)
Pow2(n) == IF n = 0 THEN 1 ELSE 2 * Pow2(n - 1)

\* a byte 0..255 as a Python int
ByteBits(b) == {i \in 0..7 : (b \div Pow2(i)) % 2 = 1}

x104C11DB7 == {32, 26, 23, 22, 16, 12, 11, 10, 8, 7, 5, 4, 2, 1, 0}
xFFFFFFFF == 0..31
x80000000 == {31}

\* ord() of the characters used as symbols
Ord(ch) ==
    CASE ch = "NUL" -> 0
      [] ch = "a" -> 97
      [] ch = "b" -> 98
      [] ch = "c" -> 99
      [] ch = "d" -> 100
      [] ch = "e" -> 101
      [] ch = "DEL" -> 127
      [] ch = "e_acute" -> 233
      [] ch = "euro" -> 8364

\* UTF-8 of one code point below 65536
Utf8(cp) ==
    IF cp < 128 THEN << cp >>
    ELSE IF cp < 2048 THEN << 192 + (cp \div 64), 128 + (cp % 64) >>
    ELSE << 224 + (cp \div 4096), 128 + ((cp \div 64) % 64), 128 + (cp % 64) >>

\* str.encode()
RECURSIVE Encode(_)
Encode(text) == IF text = <<>> THEN <<>> ELSE Utf8(Ord(text[1])) \o Encode(Tail(text))

\* variant: the polynomial is applied before the shift
CrcShift_xorfirst(c, poly) ==
    And(IF And(c, x80000000) # {} THEN Shl(Xor(c, poly), 1) ELSE Shl(c, 1), xFFFFFFFF)

\* one pass of the inner loop
CrcShift(c, poly) ==
    And(IF And(c, x80000000) # {} THEN Xor(Shl(c, 1), poly) ELSE Shl(c, 1), xFFFFFFFF)

\* for _ in range(8), after the first n passes
RECURSIVE CrcShifts(_, _, _)
CrcShifts(c, poly, n) == IF n = 0 THEN c ELSE CrcShift(CrcShifts(c, poly, n - 1), poly)

\* the body of `for byte in data.encode()`
CrcByte(c, byte, poly) == CrcShifts(Xor(c, Shl(ByteBits(byte), 24)), poly, 8)

-----------------------------------------------------------------------------
(* json.dumps / json.loads of a dict of strings: the object is written as  *)
(* its members in order and read back member by member, a repeated name    *)
(* keeping its last value.                                                 *)

JsonDumps(d) == [i \in DOMAIN d |-> << d[i].key, d[i].val >>]

RECURSIVE JsonLoads(_)
JsonLoads(members) ==
    IF members = <<>> THEN <<>>
    ELSE LET m == members[Len(members)]
         IN  DictSet(JsonLoads(SubSeq(members, 1, Len(members) - 1)), m[1], m[2])

(* reverse_codes = {v: k for k, v in codes.items()} *)

RECURSIVE ReverseCodes(_)
ReverseCodes(cs) ==
    IF cs = <<>> THEN <<>>
    ELSE LET e == cs[Len(cs)]
         IN  DictSet(ReverseCodes(SubSeq(cs, 1, Len(cs) - 1)), e.val, e.key)

-----------------------------------------------------------------------------
(* Inputs *)

Texts == SeqsUpTo(TextAlphabet, MaxLen)

CrcTexts == SeqsUpTo(CrcAlphabet, MaxCrcLen)

FreqTables ==
    UNION {{[i \in 1..k |-> [key |-> Alphabet[i], val |-> f[i]]] :
                f \in [1..k -> 1..MaxFreq]} : k \in 0..MaxSyms}

CodeTables ==
    UNION {{[i \in 1..k |-> [key |-> Alphabet[i], val |-> c[i]]] :
                c \in [1..k -> SeqsUpTo(Bit, MaxCodeLen)]} : k \in 0..MaxTable}

Streams == SeqsUpTo(Bit, MaxStream)

NoOriginal == [set |-> FALSE, text |-> <<>>]

\* every variable but action, data, pc, freq, codes and original
Fresh ==
    /\ probs = <<>>
    /\ nodes = <<>>
    /\ heap = <<>>
    /\ steps = <<>>
    /\ n1 = NoNode
    /\ n2 = NoNode
    /\ merged = NoNode
    /\ root = NoNode
    /\ build_steps = <<>>
    /\ encoded_data = <<>>
    /\ crc = {}
    /\ bytes = <<>>
    /\ nbytes = 0
    /\ reverse_codes = <<>>
    /\ buffer = <<>>
    /\ decoded = <<>>
    /\ pos = 0
    /\ error = None

Init ==
    /\ Fresh
    /\ \/ /\ action = "encode"
          /\ data \in Texts
          /\ pc = "calculate_frequency"
          /\ freq = <<>>
          /\ codes = <<>>
       \/ /\ action = "decode"
          /\ data \in Streams
          /\ pc = "reverse_codes"
          /\ freq = <<>>
          /\ codes \in CodeTables
       \/ /\ action = "build_huffman_tree"
          /\ data = <<>>
          /\ pc = "build_huffman_tree"
          /\ freq \in FreqTables
          /\ codes = <<>>
       \/ /\ action = "calculate_crc"
          /\ data \in CrcTexts
          /\ pc = "calculate_crc"
          /\ freq = <<>>
          /\ codes = <<>>
    /\ original = NoOriginal

-----------------------------------------------------------------------------
(* The encode branch *)

CalculateFrequency ==
    /\ pc = "calculate_frequency"
    /\ freq' = calculate_frequency(data)
    /\ pc' = "calculate_probabilities"
    /\ UNCHANGED << action, data, probs, nodes, heap, steps, n1, n2, merged,
                    root, build_steps, codes, encoded_data, crc, bytes, nbytes, reverse_codes,
                    buffer, decoded, pos, error, original >>

CalculateProbabilities ==
    /\ pc = "calculate_probabilities"
    /\ LET r == calculate_probabilities(freq)
       IN  IF r.raised
           THEN /\ pc' = "error"
                /\ error' = "ZeroDivisionError"
                /\ UNCHANGED probs
           ELSE /\ pc' = "build_huffman_tree"
                /\ probs' = r.value
                /\ UNCHANGED error
    /\ UNCHANGED << action, data, freq, nodes, heap, steps, n1, n2, merged,
                    root, build_steps, codes, encoded_data, crc, bytes, nbytes, reverse_codes,
                    buffer, decoded, pos, original >>

\* lines 39-47: the leaves, heapify, snapshot 0
BuildStart ==
    /\ pc = "build_huffman_tree"
    /\ nodes' = [i \in DOMAIN freq |-> Node(freq[i].key, freq[i].val)]
    /\ heap' = heapify(nodes', [i \in DOMAIN freq |-> i])
    /\ steps' = << snapshot(nodes', heap') >>
    /\ pc' = "merge"
    /\ UNCHANGED << action, data, freq, probs, n1, n2, merged, root,
                    build_steps, codes, encoded_data, crc, bytes, nbytes, reverse_codes,
                    buffer, decoded, pos, error, original >>

\* lines 49-57: one iteration of the while loop
Merge ==
    /\ pc = "merge"
    /\ Len(heap) > 1
    /\ LET p1 == heappop(nodes, heap)
           p2 == heappop(nodes, p1.heap)
           m == Len(nodes) + 1
       IN  /\ n1' = p1.item
           /\ n2' = p2.item
           /\ merged' = m
           /\ nodes' = Append(nodes, MergedNode(nodes, p1.item, p2.item))
           /\ heap' = heappush(nodes', p2.heap, m)
           /\ steps' = Append(steps, snapshot(nodes', heap'))
    /\ UNCHANGED << action, data, pc, freq, probs, root, build_steps, codes,
                    encoded_data, crc, bytes, nbytes, reverse_codes, buffer, decoded, pos,
                    error, original >>

\* lines 59-64: heap[0] of an empty list raises IndexError
BuildReturn ==
    /\ pc = "merge"
    /\ ~(Len(heap) > 1)
    /\ IF heap = <<>>
       THEN /\ pc' = "error"
            /\ error' = "IndexError"
            /\ UNCHANGED << root, build_steps >>
       ELSE /\ pc' = "generate_codes"
            /\ root' = At(heap, 0)
            /\ build_steps' = formatted_steps(steps)
            /\ UNCHANGED error
    /\ UNCHANGED << action, data, freq, probs, nodes, heap, steps, n1, n2,
                    merged, codes, encoded_data, crc, bytes, nbytes, reverse_codes, buffer,
                    decoded, pos, original >>

GenerateCodes ==
    /\ pc = "generate_codes"
    /\ codes' = generate_codes(nodes, root)
    /\ pc' = IF action = "encode" THEN "encode_text" ELSE "done"
    /\ UNCHANGED << action, data, freq, probs, nodes, heap, steps, n1, n2,
                    merged, root, build_steps, encoded_data, crc, bytes, nbytes,
                    reverse_codes, buffer, decoded, pos, error, original >>

EncodeText ==
    /\ pc = "encode_text"
    /\ LET r == encode_text(data, codes)
       IN  IF r.raised
           THEN /\ pc' = "error"
                /\ error' = "KeyError"
                /\ UNCHANGED encoded_data
           ELSE /\ pc' = "calculate_crc"
                /\ encoded_data' = r.value
                /\ UNCHANGED error
    /\ UNCHANGED << action, data, freq, probs, nodes, heap, steps, n1, n2,
                    merged, root, build_steps, codes, crc, bytes, nbytes, reverse_codes,
                    buffer, decoded, pos, original >>

\* line 83 and the call of data.encode()
CrcStart ==
    /\ pc = "calculate_crc"
    /\ crc' = xFFFFFFFF
    /\ bytes' = Encode(data)
    /\ nbytes' = 0
    /\ pc' = "crc_loop"
    /\ UNCHANGED << action, data, freq, probs, nodes, heap, steps, n1, n2,
                    merged, root, build_steps, codes, encoded_data,
                    reverse_codes, buffer, decoded, pos, error, original >>

\* lines 84-91: one iteration of the outer loop
CrcNextByte ==
    /\ pc = "crc_loop"
    /\ nbytes < Len(bytes)
    /\ crc' = CrcByte(crc, bytes[nbytes + 1], x104C11DB7)
    /\ nbytes' = nbytes + 1
    /\ UNCHANGED << action, data, pc, freq, probs, nodes, heap, steps, n1, n2,
                    merged, root, build_steps, codes, encoded_data, bytes,
                    reverse_codes, buffer, decoded, pos, error, original >>

\* line 92
CrcReturn ==
    /\ pc = "crc_loop"
    /\ nbytes = Len(bytes)
    /\ crc' = Xor(crc, xFFFFFFFF)
    /\ pc' = "done"
    /\ UNCHANGED << action, data, freq, probs, nodes, heap, steps, n1, n2,
                    merged, root, build_steps, codes, encoded_data, bytes, nbytes,
                    reverse_codes, buffer, decoded, pos, error, original >>

-----------------------------------------------------------------------------
(* The decode branch *)

\* lines 159-164
DecodeStart ==
    /\ pc = "reverse_codes"
    /\ encoded_data' = data
    /\ reverse_codes' = ReverseCodes(codes)
    /\ buffer' = <<>>
    /\ decoded' = <<>>
    /\ pos' = 0
    /\ pc' = "decode_loop"
    /\ UNCHANGED << action, data, freq, probs, nodes, heap, steps, n1, n2,
                    merged, root, build_steps, codes, crc, bytes, nbytes, error, original >>

\* lines 165-169: one iteration of the for loop
DecodeBit ==
    /\ pc = "decode_loop"
    /\ pos < Len(encoded_data)
    /\ LET buf == Append(buffer, encoded_data[pos + 1])
       IN  IF HasKey(reverse_codes, buf)
           THEN /\ decoded' = Append(decoded, Get(reverse_codes, buf))
                /\ buffer' = <<>>
           ELSE /\ buffer' = buf
                /\ UNCHANGED decoded
    /\ pos' = pos + 1
    /\ UNCHANGED << action, data, pc, freq, probs, nodes, heap, steps, n1, n2,
                    merged, root, build_steps, codes, encoded_data, crc, bytes, nbytes,
                    reverse_codes, error, original >>

\* lines 171-174: the result is printed whatever the buffer holds
DecodeEnd ==
    /\ pc = "decode_loop"
    /\ pos = Len(encoded_data)
    /\ pc' = "done"
    /\ UNCHANGED << action, data, freq, probs, nodes, heap, steps, n1, n2,
                    merged, root, build_steps, codes, encoded_data, crc, bytes, nbytes,
                    reverse_codes, buffer, decoded, pos, error, original >>

\* the printed result of an encode run is handed to a decode run
DecodeOutput ==
    /\ pc = "done"
    /\ action = "encode"
    /\ action' = "decode"
    /\ data' = encoded_data
    /\ codes' = JsonLoads(JsonDumps(codes))
    /\ original' = [set |-> TRUE, text |-> data]
    /\ pc' = "reverse_codes"
    /\ freq' = <<>>
    /\ probs' = <<>>
    /\ nodes' = <<>>
    /\ heap' = <<>>
    /\ steps' = <<>>
    /\ n1' = NoNode
    /\ n2' = NoNode
    /\ merged' = NoNode
    /\ root' = NoNode
    /\ build_steps' = <<>>
    /\ encoded_data' = <<>>
    /\ crc' = {}
    /\ bytes' = <<>>
    /\ nbytes' = 0
    /\ reverse_codes' = <<>>
    /\ buffer' = <<>>
    /\ decoded' = <<>>
    /\ pos' = 0
    /\ error' = None

Next ==
    \/ CalculateFrequency
    \/ CalculateProbabilities
    \/ BuildStart
    \/ Merge
    \/ BuildReturn
    \/ GenerateCodes
    \/ EncodeText
    \/ CrcStart
    \/ CrcNextByte
    \/ CrcReturn
    \/ DecodeStart
    \/ DecodeBit
    \/ DecodeEnd
    \/ DecodeOutput

Spec == Init /\ [][Next]_vars

-----------------------------------------------------------------------------
(* Properties *)

IsPrefix(s, t) == Len(s) <= Len(t) /\ SubSeq(t, 1, Len(s)) = s

\* generate_codes has returned and its table is still the one in `codes`
CodesGenerated ==
    /\ action \in {"encode", "build_huffman_tree"}
    /\ pc \in {"encode_text", "calculate_crc", "crc_loop", "done"}

\* encode_text has returned
TextEncoded ==
    /\ action = "encode"
    /\ pc \in {"calculate_crc", "crc_loop", "done"}

\* C1: decoding the output of an encode run of a non-empty text with the
\* code table of that run gives the text back.
C1_RoundTrip ==
    (action = "decode" /\ pc = "done" /\ original.set /\ original.text # <<>>)
        => decoded = original.text

\* C2: in a generated code table no code is a prefix of, or equal to, the
\* code of another symbol.
C2_PrefixFree ==
    CodesGenerated =>
        \A i, j \in DOMAIN codes :
            i # j => /\ codes[i].key # codes[j].key
                     /\ ~IsPrefix(codes[i].val, codes[j].val)

C2_Witness == CodesGenerated /\ Len(codes) >= 3

\* C3: with one distinct symbol the code has exactly one bit and the
\* encoded stream has one bit per input symbol.
C3_SingleSymbol ==
    /\ (CodesGenerated /\ Len(freq) = 1) => Len(codes[1].val) = 1
    /\ (TextEncoded /\ Len(freq) = 1) => Len(encoded_data) = Len(data)

\* C4: a decode run that ends with bits left in the buffer ends in an
\* IncompleteStream error.
C4_IncompleteStream ==
    (action = "decode" /\ pc = "done" /\ buffer # <<>>)
        => error = "IncompleteStream"

\* the nodes reachable from n, counted with and without repetition
RECURSIVE TreeSize(_, _)
TreeSize(ns, n) ==
    IF n = NoNode THEN 0
    ELSE 1 + TreeSize(ns, ns[n].left) + TreeSize(ns, ns[n].right)

RECURSIVE TreeSet(_, _)
TreeSet(ns, n) ==
    IF n = NoNode THEN {}
    ELSE {n} \cup TreeSet(ns, ns[n].left) \cup TreeSet(ns, ns[n].right)

IsLeaf(ns, n) == ns[n].left = NoNode /\ ns[n].right = NoNode

\* C5: the returned tree over k symbols has 2k-1 nodes: k leaves, one per
\* symbol, and k-1 internal nodes with two children each.
C5_TreeSize ==
    root # NoNode =>
        LET k == Len(freq)
            T == TreeSet(nodes, root)
            L == {n \in T : IsLeaf(nodes, n)}
        IN  /\ k >= 1
            /\ TreeSize(nodes, root) = 2 * k - 1
            /\ Cardinality(T) = 2 * k - 1
            /\ Cardinality(L) = k
            /\ \A i \in DOMAIN freq :
                 \E n \in L : /\ nodes[n].char = freq[i].key
                              /\ nodes[n].freq = freq[i].val
            /\ \A n \in T \ L : /\ nodes[n].left # NoNode
                                /\ nodes[n].right # NoNode
                                /\ nodes[n].left # nodes[n].right
                                /\ nodes[n].char = None
            /\ (k = 1 => T = {root} /\ IsLeaf(nodes, root))

C5_Witness == root # NoNode /\ Len(freq) >= 3

\* C6: calculate_probabilities of the empty table returns the empty table
\* and raises nothing.
C6_EmptyProbabilities ==
    (action = "encode" /\ data = <<>>
        /\ pc \notin {"calculate_frequency", "calculate_probabilities"})
        => /\ freq = <<>>
           /\ probs = <<>>
           /\ error # "ZeroDivisionError"

C6_Witness ==
    action = "encode" /\ data = <<>> /\ pc = "build_huffman_tree" /\ probs = <<>>

\* C7: a decode run given a table in which two symbols share a code ends
\* in an AmbiguousCodeTable error.
C7_AmbiguousRejected ==
    (action = "decode" /\ pc \in {"decode_loop", "done"}
        /\ \E i, j \in DOMAIN codes : i # j /\ codes[i].val = codes[j].val)
        => error = "AmbiguousCodeTable"

SeqToBag(s) == [x \in {s[i] : i \in DOMAIN s} |-> Cardinality({i \in DOMAIN s : s[i] = x})]

\* the pool as (label, frequency) pairs, a node with children labelled "*"
Pool(ns, h) ==
    [i \in DOMAIN h |->
        << IF IsLeaf(ns, h[i]) THEN ns[h[i]].char ELSE "*", ns[h[i]].freq >>]

Ascending(st) == \A i, j \in DOMAIN st : i < j => st[i][2] <= st[j][2]

\* C8: k snapshots numbered 0..k-1; snapshot 0 is the k leaves, snapshot i
\* the pool after merge i with k-i entries in ascending frequency, internal
\* nodes labelled "*".
C8_Snapshots ==
    /\ (pc = "merge" /\ action \in {"encode", "build_huffman_tree"}) =>
          /\ Len(steps) = Len(nodes) - Len(freq) + 1
          /\ SeqToBag(steps[Len(steps)]) = SeqToBag(Pool(nodes, heap))
          /\ SeqToBag(steps[1]) =
                SeqToBag([i \in DOMAIN freq |-> << freq[i].key, freq[i].val >>])
          /\ \A i \in DOMAIN steps :
                /\ Len(steps[i]) = Len(freq) - (i - 1)
                /\ Ascending(steps[i])
    /\ root # NoNode =>
          /\ Len(build_steps) = Len(freq)
          /\ \A i \in DOMAIN build_steps :
                /\ build_steps[i].step = i - 1
                /\ Len(build_steps[i].heap) = Len(freq) - (i - 1)
                /\ \A j \in DOMAIN build_steps[i].heap :
                      /\ build_steps[i].heap[j][1] = steps[i][j][1]
                      /\ build_steps[i].heap[j][2].float = steps[i][j][2]

C8_Witness == root # NoNode /\ Len(build_steps) >= 3

(* The checksum as the design describes it, on a register of 32 bits      *)
(* written most significant bit first.                                     *)

RegOf(c) == [i \in 1..32 |-> IF (32 - i) \in c THEN 1 ELSE 0]

\* 0x04C11DB7
Generator ==
    << 0,0,0,0, 0,1,0,0, 1,1,0,0, 0,0,0,1, 0,0,0,1, 1,1,0,1, 1,0,1,1, 0,1,1,1 >>

RegXor(r, q) == [i \in 1..32 |-> (r[i] + q[i]) % 2]

RefShift(r) ==
    IF r[1] = 1
    THEN RegXor([i \in 1..32 |-> IF i < 32 THEN r[i + 1] ELSE 0], Generator)
    ELSE [i \in 1..32 |-> IF i < 32 THEN r[i + 1] ELSE 0]

RECURSIVE RefShifts(_, _)
RefShifts(r, n) == IF n = 0 THEN r ELSE RefShift(RefShifts(r, n - 1))

RefByte(r, b) ==
    RefShifts([i \in 1..32 |->
                  IF i <= 8 THEN (r[i] + ((b \div Pow2(8 - i)) % 2)) % 2 ELSE r[i]], 8)

AllOnes == [i \in 1..32 |-> 1]

CrcStepOK ==
    /\ (pc = "calculate_crc" /\ pc' = "crc_loop") =>
          /\ RegOf(crc') = AllOnes
          /\ bytes' = Encode(data)
    /\ (pc = "crc_loop" /\ pc' = "crc_loop") =>
          /\ crc' \subseteq 0..31
          /\ RegOf(crc') = RefByte(RegOf(crc), bytes[nbytes'])
          /\ nbytes' = nbytes + 1
    /\ (pc = "crc_loop" /\ pc' = "done") =>
          /\ nbytes = Len(bytes)
          /\ crc' \subseteq 0..31
          /\ RegOf(crc') = RegXor(RegOf(crc), AllOnes)
          /\ (bytes = <<>> => crc' = {})

\* C9: calculate_crc follows the MSB-first bitwise CRC of the design step
\* by step, its result fits 32 bits, and the empty input gives 0.
C9_Crc == [][CrcStepOK]_vars

C9_Witness ==
    action = "calculate_crc" /\ pc = "done" /\ Len(bytes) >= 4 /\ crc # {}

\* C10: the two nodes a merge removes are not above any node left in the
\* pool, the first removed is the left child and not above the second, and
\* the new node carries the sum of their frequencies.
C10_MergeStep ==
    merged # NoNode =>
        /\ n1 # n2
        /\ \A i \in DOMAIN heap : heap[i] # n1 /\ heap[i] # n2
        /\ nodes[n1].freq <= nodes[n2].freq
        /\ \A i \in DOMAIN heap :
              heap[i] # merged => nodes[n2].freq <= nodes[heap[i]].freq
        /\ nodes[merged].left = n1
        /\ nodes[merged].right = n2
        /\ nodes[merged].freq = nodes[n1].freq + nodes[n2].freq

C10_Witness == pc = "merge" /\ merged # NoNode /\ Len(heap) >= 3

=============================================================================
